---- MODULE Spec2Model ----
(***************************************************************************)
(* A model of folksonomy.py (PyBlosxom plugin, version 1.5.0): the tag     *)
(* index built from the entries of the data directory, the triangular      *)
(* table of shared entries, the related tags and related stories of an     *)
(* entry, the two tag clouds, and the pickle cache that cb_start loads and  *)
(* the buildfolksonomy command writes.                                     *)
(*                                                                         *)
(* An entry file is modelled by what the plugin reads of it: the text of   *)
(* its "#tags" line, already split at the commas (str.split never returns  *)
(* an empty list, so the empty sequence stands for "no #tags line"), and    *)
(* the locations of its "#related" line, split likewise.  Rendering (the   *)
(* HTML around a tag or a story) is left out: a cloud is the set of its    *)
(* links, a related-stories block is the sequence of its links.            *)
(***************************************************************************)
EXTENDS Integers, Sequences, FiniteSets, TLC

\* corpus     the entry files of the data directory: location -> contents
\* config     the configuration (py): whether folksonomy_cache is set
\* cachefile  the file at the cache path
\* data       the data dict of the request (request.getData())
\* story      the entry dict after the latest cb_story of the request
\* last       the outcome of the plugin call that has just run
\* saved      the dict the latest successful buildfolksonomy pickled, and
\*            the corpus it was built from (history)
\* writes     the number of entry files written so far
VARIABLES corpus, config, cachefile, data, story, last, saved, writes

vars == <<corpus, config, cachefile, data, story, last, saved, writes>>

----------------------------------------------------------------------------
(* Bounds of the model. *)

\* longest "#tags" line drawn for an entry, in tags
MaxTagLen == 3
\* longest "#related" line drawn for an entry, in locations
MaxForced == 3
\* number of times an entry file is written in one behaviour of Spec
MaxWrites == 2

----------------------------------------------------------------------------
(* Strings and their order.  Python compares str values byte by byte; the  *)
(* model lists the strings it uses in that order.                          *)

TagOrder == <<"", "bar", "baz", "draft", "foo", "untagged">>

\* the files of the data directory, in the order os.walk yields them (the
\* files of the top directory, then those of the sub-directory "drafts");
\* the same sequence is the str order of their locations
PathOrder == <<"a", "b", "c", "d", "e.bak", "drafts/n">>

Files == {PathOrder[i] : i \in 1..Len(PathOrder)}

Rank(order, x) == CHOOSE i \in 1..Len(order) : order[i] = x

TagRank(t) == Rank(TagOrder, t)

PathRank(p) == Rank(PathOrder, p)

\* os.path.splitext(file)[1].strip('.')
ExtOf(f) == IF f = "e.bak" THEN "bak" ELSE "txt"

\* os.path.split(os.path.dirname(entry_location))[1]
DirOf(f) == IF f = "drafts/n" THEN "drafts" ELSE "blog"

\* config['ignore_tags'], config['ignore_directories'], and the default of
\* config['taggable_files']
IgnoreTags == {"draft"}

IgnoreDirectories == {"drafts"}

TagFilesWithExt == {"txt"}

\* no "#tags" line / no "#related" line
NoMeta == <<>>

HasTags(entry) == entry.tags # NoMeta

HasRelated(entry) == entry.related # NoMeta

Max(a, b) == IF a >= b THEN a ELSE b

Min(a, b) == IF a <= b THEN a ELSE b

Range(s) == {s[i] : i \in 1..Len(s)}

\* the elements of s placed at their positions: s[i] goes to place[i]
Placed(s, place) == [k \in 1..Len(s) |-> s[CHOOSE i \in 1..Len(s) : place[i] = k]]

\* list.sort(reverse=True): the elements of s in descending order; gt[i][j]
\* tells whether s[i] is greater than s[j] (equal elements keep their order)
SortReverse(s, gt) ==
    Placed(s, [i \in 1..Len(s) |->
                  1 + Cardinality({j \in 1..Len(s) :
                          gt[j][i] \/ (s[j] = s[i] /\ j < i)})])

\* the keys of a dict, sorted: keys() followed by sort()
SortedKeys(d) == SelectSeq(TagOrder, LAMBDA t : t \in DOMAIN d)

\* s[:n]
Prefix(s, n) == SubSeq(s, 1, Min(Len(s), n))

----------------------------------------------------------------------------
(* create_folksonomy_table *)

\* list(xentries.intersection(yentries)): the order of the list is that of
\* the set's hash table; the model lists the locations in str order (no
\* reader of the table depends on the order of a list)
SharedList(xs, ys) ==
    SelectSeq(PathOrder, LAMBDA e : e \in Range(xs) \cap Range(ys))

create_folksonomy_table(entrymap) ==
    LET taglist == SortedKeys(entrymap)
    IN  [x \in 1..Len(taglist) |->
            [y \in 1..x |->
                IF x = y THEN entrymap[taglist[x]]
                ELSE SharedList(entrymap[taglist[x]], entrymap[taglist[y]])]]

----------------------------------------------------------------------------
(* create_tagcloud, create_popular_tagcloud *)

NoCloud == {}

\* SizeOf with the rules checked from the bottom
SizeOfFromBottom(tag, count, mincount, maxcount) ==
    LET distribution == (maxcount - mincount) \div 6
    IN  IF tag = "untagged" THEN "mediumTag"
        ELSE IF count = mincount THEN "smallestTag"
        ELSE IF count > mincount THEN "smallTag"
        ELSE IF count > mincount + distribution THEN "mediumTag"
        ELSE IF count > mincount + distribution * 2 THEN "bigTag"
        ELSE IF count > mincount + distribution * 3 THEN "biggestTag"
        ELSE IF count > mincount + distribution * 4 THEN "hugeTag"
        ELSE IF count > mincount + distribution * 5 THEN "hugestTag"
        ELSE IF count = maxcount THEN "mostHugeTag"
        ELSE "mediumTag"

\* the class of a link: the if/elif chain of create_tagcloud
SizeOf(tag, count, mincount, maxcount) ==
    LET distribution == (maxcount - mincount) \div 6
    IN  IF tag = "untagged" THEN "mediumTag"
        ELSE IF count = maxcount THEN "mostHugeTag"
        ELSE IF count > mincount + distribution * 5 THEN "hugestTag"
        ELSE IF count > mincount + distribution * 4 THEN "hugeTag"
        ELSE IF count > mincount + distribution * 3 THEN "biggestTag"
        ELSE IF count > mincount + distribution * 2 THEN "bigTag"
        ELSE IF count > mincount + distribution THEN "mediumTag"
        ELSE IF count > mincount THEN "smallTag"
        ELSE IF count = mincount THEN "smallestTag"
        ELSE "mediumTag"

\* the links of the cloud: tag, class and number of entries; None (NoCloud)
\* for an empty tagcount
create_tagcloud(tagcount, mincount, maxcount) ==
    IF DOMAIN tagcount = {} THEN NoCloud
    ELSE {[tag |-> tag,
           size |-> SizeOf(tag, Len(tagcount[tag]), mincount, maxcount),
           count |-> Len(tagcount[tag])] : tag \in DOMAIN tagcount}

\* the tags that pass the filter of create_popular_tagcloud
PopTags(tagcount, mincount, maxcount) ==
    LET distribution == (maxcount - mincount) \div 6
    IN  {tag \in DOMAIN tagcount : Len(tagcount[tag]) > mincount + distribution}

RECURSIVE MinOver(_, _, _)
\* popmin = min(popmin, count), over the tags of S, starting from m
MinOver(tagcount, S, m) ==
    IF S = {} THEN m
    ELSE LET tag == CHOOSE t \in S : TRUE
         IN  MinOver(tagcount, S \ {tag}, Min(m, Len(tagcount[tag])))

PopMin(tagcount, mincount, maxcount) ==
    MinOver(tagcount, PopTags(tagcount, mincount, maxcount), maxcount)

create_popular_tagcloud(tagcount, mincount, maxcount) ==
    LET keep == PopTags(tagcount, mincount, maxcount)
        popcount == [tag \in keep |-> tagcount[tag]]
    IN  create_tagcloud(popcount, PopMin(tagcount, mincount, maxcount), maxcount)

----------------------------------------------------------------------------
(* create_folksonomy: the walk over the data directory *)

RECURSIVE TagLoop(_, _, _, _)
\* "for tag in tags" for the entry at location loc; st holds the locals
\* entrymap and maxcount
TagLoop(st, loc, tags, i) ==
    IF i > Len(tags) THEN st
    ELSE LET tag == tags[i]
         IN  IF tag \in IgnoreTags THEN TagLoop(st, loc, tags, i + 1)
             ELSE LET em0 == IF tag \notin DOMAIN st.entrymap
                                THEN st.entrymap @@ (tag :> <<>>)
                                ELSE st.entrymap
                      em1 == [em0 EXCEPT ![tag] = Append(@, loc)]
                  IN  TagLoop([entrymap |-> em1,
                               maxcount |-> Max(st.maxcount, Len(em1[tag]))],
                              loc, tags, i + 1)

\* the "else" branch of the walk: the entry has no "#tags" line
FileUntagged(st, loc) ==
    LET em0 == IF "untagged" \notin DOMAIN st.entrymap
                  THEN st.entrymap @@ ("untagged" :> <<>>)
                  ELSE st.entrymap
    IN  [st EXCEPT !.entrymap = [em0 EXCEPT !["untagged"] = Append(@, loc)]]

RECURSIVE WalkLoop(_, _, _)
\* "for root, dirs, files in os.walk(...)": the files present, in walk order
WalkLoop(st, files, k) ==
    IF k > Len(PathOrder) THEN st
    ELSE LET loc == PathOrder[k]
         IN  IF loc \notin DOMAIN files THEN WalkLoop(st, files, k + 1)
             ELSE IF ExtOf(loc) \notin TagFilesWithExt
                  THEN WalkLoop(st, files, k + 1)
             ELSE IF DirOf(loc) \in IgnoreDirectories
                  THEN WalkLoop(st, files, k + 1)
             ELSE IF HasTags(files[loc])
                  THEN WalkLoop(TagLoop(st, loc, files[loc].tags, 1), files, k + 1)
             ELSE WalkLoop(FileUntagged(st, loc), files, k + 1)

\* the locals entrymap and maxcount after the walk
Scan(files) == WalkLoop([entrymap |-> <<>>, maxcount |-> 0], files, 1)

MinCount(entrymap) ==
    CHOOSE n \in {Len(entrymap[t]) : t \in DOMAIN entrymap} :
        \A t \in DOMAIN entrymap : n <= Len(entrymap[t])

\* one run of create_folksonomy over the files of the data directory: what
\* it raises ("" when it returns), the dict it returns, and the counts it
\* passes to the clouds; min(map(len, entrymap.values())) raises ValueError
\* on an empty entrymap
CreateRun(files) ==
    LET st == Scan(files)
        entrymap == st.entrymap
        maxcount == st.maxcount
    IN  IF DOMAIN entrymap = {}
        THEN [raised |-> "ValueError", result |-> <<>>,
              mincount |-> 0, maxcount |-> maxcount, popmin |-> 0]
        ELSE LET mincount == MinCount(entrymap)
             IN  [raised |-> "",
                  result |->
                    [entrytagmap |-> entrymap,
                     sortedtags |-> SortedKeys(entrymap),
                     folksonomy |-> create_folksonomy_table(entrymap),
                     tagcloud |-> create_tagcloud(entrymap, mincount, maxcount),
                     populartagcloud |->
                         create_popular_tagcloud(entrymap, mincount, maxcount)],
                  mincount |-> mincount, maxcount |-> maxcount,
                  popmin |-> PopMin(entrymap, mincount, maxcount)]

\* the dict create_folksonomy returns (when it does not raise)
create_folksonomy(files) == CreateRun(files).result

----------------------------------------------------------------------------
(* _get_related_tags, get_related_tags *)

\* list.index
Index(s, x) == CHOOSE i \in 1..Len(s) : s[i] = x /\ \A j \in 1..(i - 1) : s[j] # x

\* SharedCell with the second branch reading the row's own diagonal cell
SharedCellOwnRow(folksonomy, tagindex, position) ==
    IF tagindex <= position THEN folksonomy[position][tagindex]
    ELSE folksonomy[tagindex][tagindex]

\* the cell read for the tags at tagindex and position
SharedCell(folksonomy, tagindex, position) ==
    IF tagindex <= position THEN folksonomy[position][tagindex]
    ELSE folksonomy[tagindex][position]

\* the order of the tuples (count, tag)
GtCountTag(r, s) ==
    \/ r[1] > s[1]
    \/ r[1] = s[1] /\ TagRank(r[2]) > TagRank(s[2])

_get_related_tags(tag, d) ==
    IF tag \notin Range(d.sortedtags) THEN <<>>
    ELSE LET tagindex == Index(d.sortedtags, tag)
             all == [p \in 1..Len(d.sortedtags) |->
                        <<Len(SharedCell(d.folksonomy, tagindex,
                                         Index(d.sortedtags, d.sortedtags[p]))),
                          d.sortedtags[p]>>]
             relationship == SelectSeq(all, LAMBDA r : r[1] > 0)
         IN  SortReverse(relationship,
                         [i \in 1..Len(relationship) |->
                             [j \in 1..Len(relationship) |->
                                 GtCountTag(relationship[i], relationship[j])]])

RECURSIVE RelatedTagsLoop(_, _, _, _)
\* "for tag in tags" of get_related_tags
RelatedTagsLoop(related, tags, i, d) ==
    IF i > Len(tags) THEN related
    ELSE IF tags[i] \in IgnoreTags THEN RelatedTagsLoop(related, tags, i + 1, d)
    ELSE RelatedTagsLoop(related \o _get_related_tags(tags[i], d), tags, i + 1, d)

get_related_tags(entry, d) ==
    LET found == RelatedTagsLoop(<<>>, entry.tags, 1, d)
        related == SortReverse(found,
                       [i \in 1..Len(found) |->
                           [j \in 1..Len(found) |-> GtCountTag(found[i], found[j])]])
        kept == SelectSeq(related, LAMBDA x : x[1] > 1)
    IN  [k \in 1..Len(kept) |-> kept[k][2]]

----------------------------------------------------------------------------
(* _get_related_stories, get_related_stories *)

\* the order of two lists of locations
GtList(xs, ys) ==
    LET m == Min(Len(xs), Len(ys))
        diff == {i \in 1..m : xs[i] # ys[i]}
    IN  IF diff = {} THEN Len(xs) > Len(ys)
        ELSE LET i == CHOOSE k \in diff : \A l \in diff : k <= l
             IN  PathRank(xs[i]) > PathRank(ys[i])

\* the order of the tuples (len(entries), entries, tag)
GtRelationship(r, s) ==
    \/ r[1] > s[1]
    \/ r[1] = s[1] /\ GtList(r[2], s[2])
    \/ r[1] = s[1] /\ r[2] = s[2] /\ TagRank(r[3]) > TagRank(s[3])

_get_related_stories(tag, d) ==
    IF tag \notin Range(d.sortedtags) THEN <<>>
    ELSE LET tagindex == Index(d.sortedtags, tag)
             all == [p \in 1..Len(d.sortedtags) |->
                        LET entries == SharedCell(d.folksonomy, tagindex,
                                           Index(d.sortedtags, d.sortedtags[p]))
                        IN  <<Len(entries), entries, d.sortedtags[p]>>]
             found == SelectSeq(all, LAMBDA r : r[1] > 0)
             relationship ==
                 SortReverse(found,
                     [i \in 1..Len(found) |->
                         [j \in 1..Len(found) |-> GtRelationship(found[i], found[j])]])
         IN  [k \in 1..Len(relationship) |->
                 <<relationship[k][3], relationship[k][2]>>]

RECURSIVE StoriesLoop(_, _, _)
\* "for story in stories": related maps a story to its count
StoriesLoop(related, stories, i) ==
    IF i > Len(stories) THEN related
    ELSE LET s == stories[i]
         IN  StoriesLoop(IF s \in DOMAIN related
                            THEN [related EXCEPT ![s] = @ + 1]
                            ELSE related @@ (s :> 1),
                         stories, i + 1)

RECURSIVE RelationshipLoop(_, _, _, _)
\* "for relationship in tmp"
RelationshipLoop(related, tmp, tags, j) ==
    IF j > Len(tmp) THEN related
    ELSE IF tmp[j][1] \notin Range(tags)
         THEN RelationshipLoop(related, tmp, tags, j + 1)
    ELSE RelationshipLoop(StoriesLoop(related, tmp[j][2], 1), tmp, tags, j + 1)

RECURSIVE RelatedStoriesLoop(_, _, _, _)
\* "for tag in tags" of get_related_stories
RelatedStoriesLoop(related, tags, i, d) ==
    IF i > Len(tags) THEN related
    ELSE IF tags[i] \in IgnoreTags
         THEN RelatedStoriesLoop(related, tags, i + 1, d)
    ELSE RelatedStoriesLoop(
             RelationshipLoop(related, _get_related_stories(tags[i], d), tags, 1),
             tags, i + 1, d)

\* the dict related of get_related_stories after its first loop
StoryVotes(entry, d) == RelatedStoriesLoop(<<>>, entry.tags, 1, d)

\* the order of the tuples (count, story)
GtCountStory(r, s) ==
    \/ r[1] > s[1]
    \/ r[1] = s[1] /\ PathRank(r[2]) > PathRank(s[2])

\* related.values() sorted in reverse, then the stories alone:
\* [r[1] for r in related]
SortedStories(related) ==
    LET values == SelectSeq([k \in 1..Len(PathOrder) |->
                                IF PathOrder[k] \in DOMAIN related
                                   THEN <<related[PathOrder[k]], PathOrder[k]>>
                                   ELSE <<0, PathOrder[k]>>],
                            LAMBDA v : v[1] > 0)
        sorted == SortReverse(values,
                      [i \in 1..Len(values) |->
                          [j \in 1..Len(values) |-> GtCountStory(values[i], values[j])]])
    IN  [k \in 1..Len(sorted) |-> sorted[k][2]]

\* myentries read from the "#related" line: os.path.join(datadir, location)
\* names the file at that location, so the location stands for the path
ForcedEntries(entry) == IF HasRelated(entry) THEN entry.related ELSE <<>>

\* get_related_stories with the subject dropped before the cut to 6
get_related_stories_backfill(entry, d) ==
    LET related == StoryVotes(entry, d)
    IN  IF DOMAIN related = {} THEN <<>>
        ELSE Prefix(SelectSeq(ForcedEntries(entry) \o SortedStories(related),
                              LAMBDA loc : loc # entry.filename), 6)

\* the links of the block get_related_stories returns, in order; the empty
\* sequence when it returns None
get_related_stories(entry, d) ==
    LET related == StoryVotes(entry, d)
    IN  IF DOMAIN related = {} THEN <<>>
        ELSE LET myentries ==
                     Prefix(ForcedEntries(entry) \o SortedStories(related), 6)
             IN  SelectSeq(myentries, LAMBDA loc : loc # entry.filename)

----------------------------------------------------------------------------
(* cPickle.dump and cPickle.load of the dict: the file holds the items of  *)
(* the dict; a file that holds no pickle makes load raise                  *)

SnapshotKeys == <<"entrytagmap", "sortedtags", "folksonomy", "tagcloud",
                  "populartagcloud">>

\* a file with something else than a pickle in it (here: nothing)
Garbage == <<>>

NoFile == [exists |-> FALSE, content |-> Garbage]

cPickle_dump(d) ==
    LET keys == SelectSeq(SnapshotKeys, LAMBDA k : k \in DOMAIN d)
    IN  [i \in 1..Len(keys) |-> <<keys[i], d[keys[i]]>>]

LoadRaises(content) == content = Garbage

cPickle_load(content) ==
    [k \in {content[i][1] : i \in 1..Len(content)} |->
        content[CHOOSE i \in 1..Len(content) : content[i][1] = k][2]]

\* the empty dict
EmptyDict == <<>>

\* dict.update
Update(d, other) == other @@ d

----------------------------------------------------------------------------
(* The state *)

NoStory == [filename |-> "", tags |-> NoMeta, related |-> NoMeta,
            single |-> FALSE, relatedtags |-> <<>>, relatedstories |-> <<>>,
            rawtags |-> NoMeta]

NoCall == [op |-> "", raised |-> "", built |-> FALSE,
           mincount |-> 0, maxcount |-> 0, popmin |-> 0]

NotSaved == [valid |-> FALSE, snapshot |-> EmptyDict, corpus |-> EmptyDict]

\* the outcome of a call whose run of create_folksonomy was run
Built(op, run) ==
    [op |-> op, raised |-> run.raised, built |-> TRUE,
     mincount |-> run.mincount, maxcount |-> run.maxcount, popmin |-> run.popmin]

----------------------------------------------------------------------------
(* cb_start *)

\* os.path.exists(config.get("folksonomy_cache", "")) and the load succeeds
CacheLoads(cfg, file) ==
    cfg.folksonomy_cache /\ file.exists /\ ~LoadRaises(file.content)

CbStart ==
    /\ IF CacheLoads(config, cachefile)
       THEN /\ data' = Update(EmptyDict, cPickle_load(cachefile.content))
            /\ last' = [NoCall EXCEPT !.op = "cb_start"]
       ELSE LET run == CreateRun(corpus)
            IN  /\ data' = IF run.raised # "" THEN EmptyDict
                           ELSE Update(EmptyDict, run.result)
                /\ last' = Built("cb_start", run)
    /\ story' = NoStory
    /\ UNCHANGED <<corpus, config, cachefile, saved, writes>>

----------------------------------------------------------------------------
(* build_folksonomy: the command buildfolksonomy *)

\* WriteCache that leaves a file already at the cache path as it is
WriteCacheKeep(file, d) ==
    IF file.exists THEN file
    ELSE [exists |-> TRUE, content |-> cPickle_dump(d)]

\* with open(cachefile, "w") as cache: cPickle.dump(folksonomy, cache)
WriteCache(file, d) == [exists |-> TRUE, content |-> cPickle_dump(d)]

BuildFolksonomy ==
    /\ IF ~config.folksonomy_cache
       THEN /\ last' = [NoCall EXCEPT !.op = "build_folksonomy",
                                      !.raised = "ValueError"]
            /\ UNCHANGED <<cachefile, saved>>
       ELSE LET run == CreateRun(corpus)
            IN  /\ last' = Built("build_folksonomy", run)
                /\ IF run.raised # ""
                   THEN UNCHANGED <<cachefile, saved>>
                   ELSE /\ cachefile' = WriteCache(cachefile, run.result)
                        /\ saved' = [valid |-> TRUE, snapshot |-> run.result,
                                     corpus |-> corpus]
    /\ UNCHANGED <<corpus, config, data, story, writes>>

----------------------------------------------------------------------------
(* cb_story *)

\* the entry the host passes to cb_story for the file at location f
EntryOf(f, files) ==
    [filename |-> f, tags |-> files[f].tags, related |-> files[f].related]

\* single: len(renderer.getContent()) == 1.  The model follows the first
\* story of a request (cb_start has filled data, no story shown yet).
CbStory(f, single) ==
    /\ DOMAIN data # {}
    /\ story = NoStory
    /\ f \in DOMAIN corpus
    /\ ExtOf(f) = "txt"
    /\ LET entry == EntryOf(f, corpus)
       IN  story' =
             IF ~HasTags(entry)
             THEN [NoStory EXCEPT !.filename = f, !.related = entry.related,
                                  !.single = single]
             ELSE [filename |-> f, tags |-> entry.tags, related |-> entry.related,
                   single |-> single,
                   relatedtags |-> IF single THEN get_related_tags(entry, data)
                                   ELSE <<>>,
                   relatedstories |-> IF single
                                      THEN get_related_stories(entry, data)
                                      ELSE <<>>,
                   rawtags |-> entry.tags]
    /\ UNCHANGED <<corpus, config, cachefile, data, last, saved, writes>>

----------------------------------------------------------------------------
(* The environment: the author writes an entry file; the cache file is     *)
(* damaged or replaced by something that is no pickle                      *)

WriteTags == {NoMeta, <<"foo">>, <<"draft">>}

\* the entry written has no "#related" line
WriteEntry(f, tags) ==
    /\ writes < MaxWrites
    /\ corpus' = (f :> [tags |-> tags, related |-> NoMeta]) @@ corpus
    /\ corpus' # corpus
    /\ writes' = writes + 1
    /\ last' = NoCall
    /\ story' = NoStory
    /\ UNCHANGED <<config, cachefile, data, saved>>

DamageCache ==
    /\ cachefile # [exists |-> TRUE, content |-> Garbage]
    /\ cachefile' = [exists |-> TRUE, content |-> Garbage]
    /\ last' = NoCall
    /\ story' = NoStory
    /\ UNCHANGED <<corpus, config, data, saved, writes>>

----------------------------------------------------------------------------
(* The plugin over its life: the data directory starts empty, entries are  *)
(* written, the cache is built, damaged and loaded                         *)

Entry(tags, related) == [tags |-> tags, related |-> related]

ScenarioCorpus ==
    ("a" :> Entry(<<"foo", "bar">>, NoMeta)) @@ ("b" :> Entry(<<"foo">>, NoMeta))
    @@ ("c" :> Entry(<<"bar", "baz">>, NoMeta)) @@ ("d" :> Entry(NoMeta, NoMeta))

Init ==
    /\ corpus = EmptyDict
    /\ config \in [folksonomy_cache : BOOLEAN]
    /\ cachefile = NoFile
    /\ data = EmptyDict
    /\ story = NoStory
    /\ last = NoCall
    /\ saved = NotSaved
    /\ writes = 0

Next ==
    \/ CbStart
    \/ BuildFolksonomy
    \/ \E f \in Files, single \in BOOLEAN : CbStory(f, single)
    \/ \E f \in Files, tags \in WriteTags : WriteEntry(f, tags)
    \/ DamageCache

Spec == Init /\ [][Next]_vars

----------------------------------------------------------------------------
(* The index and the related lists as functions of the corpus: the corpus  *)
(* is drawn from bounded families; one request starts (cb_start) and shows *)
(* a story (cb_story)                                                      *)

TagNames == {"foo", "bar"}

SpecialTexts == {<<"">>, <<"draft">>, <<"draft", "foo">>}

TagTexts ==
    {NoMeta} \cup SpecialTexts
    \cup UNION {[1..k -> TagNames] : k \in 1..MaxTagLen}

\* files the walk skips: one with another extension, one in an ignored
\* directory
SkippedFiles ==
    ("e.bak" :> Entry(<<"baz">>, NoMeta)) @@ ("drafts/n" :> Entry(<<"baz">>, NoMeta))

\* the tag texts of at most MaxTagLen - 1 tags
ShortTagTexts == {t \in TagTexts : Len(t) < MaxTagLen}

\* the entries "b" and "c" carry any tag text, the entry "a" a short one
IndexCorpora ==
    {("a" :> Entry(ta, NoMeta)) @@ ("b" :> Entry(tb, NoMeta))
       @@ ("c" :> Entry(tc, NoMeta)) @@ SkippedFiles :
       ta \in ShortTagTexts, tb \in TagTexts, tc \in TagTexts}

RelatedLists == UNION {[1..k -> {"a", "b", "c", "d"}] : k \in 1..MaxForced}

\* the entry "d" carries a "#related" line and tags, ignored or not; the
\* other entries are tagged "foo" or have no "#tags" line
ForcedCorpora ==
    {[f \in {"a", "b", "c", "d"} |->
         IF f = "d" THEN Entry(dt, r) ELSE Entry(t[f], NoMeta)] :
       t \in [{"a", "b", "c"} -> {NoMeta, <<"foo">>}],
       dt \in {<<"foo">>, <<"draft">>}, r \in RelatedLists}

InitQuery ==
    /\ corpus \in IndexCorpora \cup ForcedCorpora \cup {ScenarioCorpus}
    /\ config = [folksonomy_cache |-> FALSE]
    /\ cachefile = NoFile
    /\ data = EmptyDict
    /\ story = NoStory
    /\ last = NoCall
    /\ saved = NotSaved
    /\ writes = 0

NextQuery ==
    \/ DOMAIN data = {} /\ CbStart
    \/ \E f \in Files, single \in BOOLEAN : CbStory(f, single)

SpecQuery == InitQuery /\ [][NextQuery]_vars

----------------------------------------------------------------------------
(* The tail of create_folksonomy: the two clouds built from the entrymap *)

\* the longest list a tag may have
MaxCount == 9

\* the longest "untagged" list
MaxUntagged == 2

\* the tags of the cloud inputs, in str order
CloudTags == <<"bar", "baz", "corge", "foo", "quux", "qux">>

\* the numbers of entries of the first n tags, in non-decreasing order
CountLists ==
    {s \in UNION {[1..n -> 1..MaxCount] : n \in 0..Len(CloudTags)} :
        \A i \in 1..(Len(s) - 1) : s[i] <= s[i + 1]}

\* the entrymap after a walk that listed counts[i] entries under the i-th
\* tag and u entries under "untagged"
EntrymapOf(counts, u) ==
    LET tagged == [tag \in {CloudTags[i] : i \in 1..Len(counts)} |->
                      [k \in 1..counts[Index(CloudTags, tag)] |-> "a"]]
    IN  IF u = 0 THEN tagged
        ELSE tagged @@ ("untagged" :> [k \in 1..u |-> "b"])

\* the local maxcount after the walk: the longest list appended to in the
\* tagged branch, 0 when there is none
WalkMaxcount(entrymap) ==
    LET lens == {Len(entrymap[t]) : t \in DOMAIN entrymap \ {"untagged"}}
    IN  IF lens = {} THEN 0 ELSE CHOOSE n \in lens : \A m \in lens : m <= n

\* folksonomy["tagcloud"] = create_tagcloud(config, entrymap, mincount, maxcount)
CreateTagcloud ==
    /\ DOMAIN data = {"entrytagmap"}
    /\ LET entrymap == data.entrytagmap
           mincount == MinCount(entrymap)
           maxcount == WalkMaxcount(entrymap)
       IN  /\ data' = Update(data, "tagcloud" :>
                                     create_tagcloud(entrymap, mincount, maxcount))
           /\ last' = [op |-> "create_tagcloud", raised |-> "", built |-> TRUE,
                       mincount |-> mincount, maxcount |-> maxcount, popmin |-> 0]
    /\ UNCHANGED <<corpus, config, cachefile, story, saved, writes>>

\* folksonomy["populartagcloud"] = create_popular_tagcloud(config, entrymap,
\* mincount, maxcount)
CreatePopularTagcloud ==
    /\ DOMAIN data = {"entrytagmap", "tagcloud"}
    /\ LET entrymap == data.entrytagmap
           mincount == MinCount(entrymap)
           maxcount == WalkMaxcount(entrymap)
       IN  /\ data' = Update(data, "populartagcloud" :>
                          create_popular_tagcloud(entrymap, mincount, maxcount))
           /\ last' = [op |-> "create_popular_tagcloud", raised |-> "",
                       built |-> TRUE,
                       mincount |-> mincount, maxcount |-> maxcount,
                       popmin |-> PopMin(entrymap, mincount, maxcount)]
    /\ UNCHANGED <<corpus, config, cachefile, story, saved, writes>>

\* create_folksonomy after the walk over a non-empty entrymap, the dict it
\* returns holding the entrymap only
InitCloud ==
    /\ corpus = EmptyDict
    /\ config = [folksonomy_cache |-> FALSE]
    /\ cachefile = NoFile
    /\ \E counts \in CountLists, u \in 0..MaxUntagged :
          /\ Len(counts) + u > 0
          /\ data = [entrytagmap |-> EntrymapOf(counts, u)]
    /\ story = NoStory
    /\ last = NoCall
    /\ saved = NotSaved
    /\ writes = 0

NextCloud == CreateTagcloud \/ CreatePopularTagcloud

SpecCloud == InitCloud /\ [][NextCloud]_vars

----------------------------------------------------------------------------
(* Properties *)

Occurrences(s, x) == Cardinality({i \in 1..Len(s) : s[i] = x})

\* a permalink view of a tagged entry has been rendered
StoryShown == story.filename # "" /\ story.single /\ HasTags(story)

\* C1: for all positions i, j of the sorted tag list, the lookup of the
\* related-tags and related-stories functions reads the stored cell
\* folksonomy[max(i,j)][min(i,j)], so the lookup is symmetric; the cell holds
\* exactly the entries listed under both tags, and the cell of a tag with
\* itself is the tag's whole entry list.
SharedCellSymmetric ==
    DOMAIN data # {} =>
        \A i, j \in 1..Len(data.sortedtags) :
            /\ SharedCell(data.folksonomy, i, j)
                 = data.folksonomy[Max(i, j)][Min(i, j)]
            /\ SharedCell(data.folksonomy, i, j) = SharedCell(data.folksonomy, j, i)
            /\ Range(SharedCell(data.folksonomy, i, j))
                 = Range(data.entrytagmap[data.sortedtags[i]])
                   \cap Range(data.entrytagmap[data.sortedtags[j]])
            /\ SharedCell(data.folksonomy, i, i)
                 = data.entrytagmap[data.sortedtags[i]]

\* a story was shown with related tags, over an index with two tags that
\* share some but not all of their entries
SharedCellWitness ==
    /\ StoryShown
    /\ story.relatedtags # <<>>
    /\ \E i, j \in 1..Len(data.sortedtags) :
          /\ i > j
          /\ SharedCell(data.folksonomy, j, i) # <<>>
          /\ Range(SharedCell(data.folksonomy, j, i))
               # Range(data.entrytagmap[data.sortedtags[i]])


\* the tag list of an entry is empty once ignored tags are dropped: no
\* "#tags" line, an empty tag text, or ignored tags only
NoTagsLeft(e) ==
    \/ ~HasTags(e)
    \/ e.tags = <<"">>
    \/ \A i \in 1..Len(e.tags) : e.tags[i] \in IgnoreTags

\* the walk of create_folksonomy does not skip the file
Eligible(f) == ExtOf(f) \in TagFilesWithExt /\ DirOf(f) \notin IgnoreDirectories

\* C2: after an index build, every eligible entry whose tag list is empty
\* once ignored tags are dropped appears exactly once under "untagged" and
\* under no other tag of the index.
UntaggedFiledOnce ==
    (last.op = "cb_start" /\ last.built /\ last.raised = "") =>
        \A f \in DOMAIN corpus :
            (Eligible(f) /\ NoTagsLeft(corpus[f])) =>
                /\ "untagged" \in DOMAIN data.entrytagmap
                /\ Occurrences(data.entrytagmap["untagged"], f) = 1
                /\ \A t \in DOMAIN data.entrytagmap \ {"untagged"} :
                      f \notin Range(data.entrytagmap[t])

\* C3: in get_related_tags a non-ignored subject tag t contributes candidates
\* (count, u) only for tags u other than t; for the corpus a:[foo,bar],
\* b:[foo], c:[bar,baz], d:[] the related tags of entry a are empty.
RelatedTagsExcludeSelf ==
    StoryShown =>
        /\ \A i \in 1..Len(story.tags) :
              story.tags[i] \notin IgnoreTags =>
                  \A k \in 1..Len(_get_related_tags(story.tags[i], data)) :
                      _get_related_tags(story.tags[i], data)[k][2] # story.tags[i]
        /\ (corpus = ScenarioCorpus /\ story.filename = "a") =>
               story.relatedtags = <<>>

\* forced relations followed by the computed stories
Candidates(entry, d) == ForcedEntries(entry) \o SortedStories(StoryVotes(entry, d))

WithoutSubject(s, entry) == SelectSeq(s, LAMBDA loc : loc # entry.filename)

\* C4: for every subject entry with a tag list, whether or not a computed
\* related story exists, the related stories are the forced relations in
\* their listed order followed by the computed stories, cut to 6, with the
\* subject removed.
ForcedRelationsFirst ==
    StoryShown =>
        story.relatedstories
          = WithoutSubject(Prefix(Candidates(story, data), 6), story)

SharedTags(entry, s, d) ==
    {t \in Range(entry.tags) \ IgnoreTags :
        t \in DOMAIN d.entrytagmap /\ s \in Range(d.entrytagmap[t])}

\* C6: the computed stories of the related stories (those after the forced
\* relations) appear in non-increasing order of the number of non-ignored
\* subject tags each shares with the subject.
ComputedOrderedByShared ==
    StoryShown =>
        LET cands == Prefix(Candidates(story, data), 6)
            first == Len(ForcedEntries(story)) + 1
        IN  \A i, j \in first..Len(cands) :
                (i < j /\ cands[i] # story.filename /\ cands[j] # story.filename)
                => Cardinality(SharedTags(story, cands[i], data))
                     >= Cardinality(SharedTags(story, cands[j], data))

\* C10: whenever the build produces a popular cloud, the minimum count it is
\* bucketed with is strictly greater than the minimum count of the full
\* cloud.
PopularMinAboveMin ==
    (/\ last.op = "cb_start" /\ last.built /\ last.raised = ""
     /\ data.populartagcloud # NoCloud)
    => last.popmin > last.mincount


\* the cache cannot be loaded: no cache path, no file, or no pickle in it
CacheUnavailable ==
    \/ ~config.folksonomy_cache
    \/ ~cachefile.exists
    \/ LoadRaises(cachefile.content)

\* C7: on start, when the cache path is not configured, the file does not
\* exist or it fails to deserialize, no error reaches the caller and the
\* published snapshot is a fresh build from the current corpus.
StartFallsBackToRebuild ==
    (last.op = "cb_start" /\ CacheUnavailable) =>
        /\ last.raised = ""
        /\ data = create_folksonomy(corpus)

\* C8: the snapshot a start publishes is a build from the current corpus or
\* the snapshot the latest successful rebuild command wrote; a successful
\* rebuild command leaves exactly its snapshot at the cache path, whatever
\* was there; with the corpus unchanged since that rebuild the loaded
\* snapshot is the build from the current corpus.
StartPublishesBuildOrSaved ==
    /\ (last.op = "cb_start" /\ last.raised = "") =>
          /\ \/ CreateRun(corpus).raised = "" /\ data = create_folksonomy(corpus)
             \/ saved.valid /\ data = saved.snapshot
          /\ (saved.valid /\ saved.corpus = corpus) =>
                data = create_folksonomy(corpus)
    /\ (last.op = "build_folksonomy" /\ last.raised = "") =>
          /\ saved.valid /\ saved.corpus = corpus
          /\ cachefile.exists
          /\ ~LoadRaises(cachefile.content)
          /\ cPickle_load(cachefile.content) = create_folksonomy(corpus)

\* a start has loaded the snapshot the latest rebuild command wrote, the
\* corpus having changed since
StartLoadsSavedWitness ==
    /\ last.op = "cb_start"
    /\ ~last.built
    /\ last.raised = ""
    /\ saved.valid
    /\ saved.corpus # corpus
    /\ data = saved.snapshot
    /\ data # create_folksonomy(corpus)

\* C9: a build over a corpus with no eligible entry does not fail; it
\* returns an empty snapshot with an empty or absent cloud.
EmptyCorpusBuilds ==
    (last.built /\ \A f \in DOMAIN corpus : ~Eligible(f)) =>
        /\ last.raised = ""
        /\ (last.op = "cb_start" =>
               \A k \in DOMAIN data : data[k] \in {<<>>, NoCloud})

\* the rules of the cloud classes, from the top: whether the rule matches
\* the count, and its class
CloudRules(count, mincount, maxcount) ==
    LET distribution == (maxcount - mincount) \div 6
    IN  << <<count = maxcount, "mostHugeTag">>,
           <<count > mincount + 5 * distribution, "hugestTag">>,
           <<count > mincount + 4 * distribution, "hugeTag">>,
           <<count > mincount + 3 * distribution, "biggestTag">>,
           <<count > mincount + 2 * distribution, "bigTag">>,
           <<count > mincount + 1 * distribution, "mediumTag">>,
           <<count > mincount, "smallTag">>,
           <<count = mincount, "smallestTag">> >>

\* the link r of a cloud bucketed with mincount and maxcount has the class
\* of the first rule that matches its count; "untagged" is medium
FirstMatchClass(r, mincount, maxcount) ==
    LET rules == CloudRules(r.count, mincount, maxcount)
    IN  IF r.tag = "untagged" THEN r.size = "mediumTag"
        ELSE \E k \in 1..Len(rules) :
                /\ rules[k][1]
                /\ \A j \in 1..(k - 1) : ~rules[j][1]
                /\ r.size = rules[k][2]

\* the numbers of entries of the tags of the entrymap are 1, 1, 2, 5, 9, 9
ExampleCounts ==
    /\ "untagged" \notin DOMAIN data.entrytagmap
    /\ Cardinality(DOMAIN data.entrytagmap) = 6
    /\ \A n \in {1, 2, 5, 9} :
          Cardinality({t \in DOMAIN data.entrytagmap :
                          Len(data.entrytagmap[t]) = n})
            = IF n \in {1, 9} THEN 2 ELSE 1

\* C11: in create_tagcloud every tag other than "untagged" gets exactly the
\* class of the first matching rule, checked from the top (count == max,
\* then count > min + k*distribution for k = 5..1, then count > min, then
\* count == min), with distribution = (max - min) / 6 by integer division,
\* and "untagged" is always medium; for the counts 1, 1, 2, 5, 9, 9 the
\* tags with 9 entries are mostHuge and those with 1 entry smallest.
CloudClassFirstMatch ==
    /\ last.op = "create_tagcloud" =>
          /\ \A r \in data.tagcloud :
                /\ r.count = Len(data.entrytagmap[r.tag])
                /\ FirstMatchClass(r, last.mincount, last.maxcount)
          /\ ExampleCounts =>
                \A r \in data.tagcloud :
                    /\ r.count = 9 => r.size = "mostHugeTag"
                    /\ r.count = 1 => r.size = "smallestTag"
    /\ last.op = "create_popular_tagcloud" =>
          \A r \in data.populartagcloud :
              /\ r.count = Len(data.entrytagmap[r.tag])
              /\ FirstMatchClass(r, last.popmin, last.maxcount)

\* the cloud of the counts 1, 1, 2, 5, 9, 9 has been built: two links are
\* mostHuge, two smallest, and the count 5 matches several rules
CloudExampleWitness ==
    /\ last.op = "create_tagcloud"
    /\ ExampleCounts
    /\ Cardinality({r \in data.tagcloud : r.size = "mostHugeTag"}) = 2
    /\ Cardinality({r \in data.tagcloud : r.size = "smallestTag"}) = 2
    /\ \E r \in data.tagcloud :
          /\ r.count = 5
          /\ r.size = "biggestTag"
          /\ CloudRules(5, last.mincount, last.maxcount)[5][1]

====
